---- MODULE Spec2Model ----
(***************************************************************************)
(* Model of the fact-checker's infrastructure code:                        *)
(*   - the TTL cache             (src/src/utils/cache.ts)                  *)
(*   - the retry executor        (src/src/utils/retry.ts)                  *)
(*   - the sliding-window limiter and the synchronous head of the POST     *)
(*     handler                   (src/src/app/api/fact-check/route.ts)     *)
(*                                                                         *)
(* Time is Date.now() in milliseconds.  The clock never goes back and is   *)
(* observed at multiples of ClockStep, half the limiter window, so that    *)
(* both sides of every "age > limit" comparison are reached.               *)
(***************************************************************************)
EXTENDS Integers, Sequences, FiniteSets, TLC

VARIABLES
    now,        \* Date.now()
    ttl,        \* Cache.ttl, milliseconds
    cache,      \* Cache.cache : key -> [value, timestamp], defined on the stored keys
    cacheOp,    \* the last Cache call: operation, arguments, time, returned value
    lastSet,    \* history: per key, the last set() since the last clear()
    prevSet,    \* history: per key, the set() before lastSet
    cleared,    \* history: the keys set before the last clear() and not since
    rpc,        \* withRetry: "idle", "calling" (await fn()), "waiting" (await
                \* setTimeout), "done"
    opts,       \* withRetry: maxRetries, initialDelay, maxDelay, backoffFactor
    attempt,    \* withRetry: the loop counter
    delay,      \* withRetry: the current delay
    lastError,  \* withRetry: the last caught error
    failures,   \* the action: it fails on its first `failures` invocations
    calls,      \* history: the settled invocations of the action, in order
    waits,      \* history: the delays passed to setTimeout, in order
    outcome,    \* how withRetry settled
    requestLog, \* requestLog : ip -> timestamps, defined on the stored keys
    post,       \* the POST handler that is running: its position and its ip
    limOp,      \* the last isRateLimited call: ip, time, list found, verdict
    solo,       \* per ip, the requestLog of a run in which only the calls
                \* for that ip happen, at the same times
    reqs,       \* the POST handlers in flight: per handler its position, its
                \* locals, its response and the events of its request so far
    admitted,   \* history: per ip, the timestamps recorded by requests that
                \* passed the check, as far as they are newer than now - window
    lockedSince \* history: per ip, the time of the first limited verdict
                \* since the last recorded request, or -1

cacheVars == <<ttl, cache, cacheOp, lastSet, prevSet, cleared>>
retryVars == <<rpc, opts, attempt, delay, lastError, failures, calls, waits, outcome>>
limiterVars == <<requestLog, post, limOp, solo>>
postVars == <<reqs, admitted, lockedSince>>
vars == <<now, ttl, cache, cacheOp, lastSet, prevSet, cleared,
          rpc, opts, attempt, delay, lastError, failures, calls, waits, outcome,
          requestLog, post, limOp, solo, reqs, admitted, lockedSince>>

----------------------------------------------------------------------------
(* Bounds *)

MaxTicks == 3                   \* the clock is observed at 0 .. MaxTicks steps
MaxAttempts == 4                \* maxRetries ranges over 0 .. MaxAttempts

Keys == {"k1", "k2"}            \* cache keys (request texts)
Values == {"v1", "v2"}          \* cached values / results of the action
TtlMinutes == {0, 1}            \* constructor arguments tried
Null == "null"                  \* JavaScript null
None == "none"                  \* history: no such call
NoSet == [value |-> None, time |-> 0]
Ips == {"10.0.0.1", "unknown"}  \* x-forwarded-for, or "unknown"
Errors == {"e1", "e2"}          \* errors thrown by the action
Handlers == {"h1", "h2"}        \* POST requests that can be in flight together

\* initialDelay and maxDelay, milliseconds; multiples of 2000 so that the
\* products with the factors below are whole numbers, as they are exact in
\* IEEE doubles
Delays == {0, 2000, 4000, 16000}
\* backoffFactor: 0.5, 1, 1.5, 2
BackoffFactors ==
    {[num |-> 1, den |-> 2], [num |-> 1, den |-> 1],
     [num |-> 3, den |-> 2], [num |-> 2, den |-> 1]}
RetryOptions ==
    [maxRetries : 0 .. MaxAttempts, initialDelay : Delays, maxDelay : Delays,
     backoffFactor : BackoffFactors]

----------------------------------------------------------------------------
(* Clock *)

RATE_LIMIT_WINDOW == 60 * 1000
MAX_REQUESTS_PER_WINDOW == 10
ClockStep == RATE_LIMIT_WINDOW \div 2
MaxNow == MaxTicks * ClockStep

Tick ==
    /\ now < MaxNow
    /\ now' = now + ClockStep

----------------------------------------------------------------------------
(* Cache *)

\* constructor: this.ttl = ttlMinutes * 60 * 1000
CacheTtl(ttlMinutes) == ttlMinutes * 60 * 1000

\* a set that keeps the timestamp of the entry it overwrites
CacheSetKeepStamp(c, key, value, t) ==
    [k \in (DOMAIN c) \cup {key} |->
        IF k = key
        THEN [value |-> value,
              timestamp |-> IF key \in DOMAIN c THEN c[key].timestamp ELSE t]
        ELSE c[k]]

\* Map.set(key, {value, timestamp: Date.now()})
CacheSetMap(c, key, value, t) ==
    [k \in (DOMAIN c) \cup {key} |->
        IF k = key THEN [value |-> value, timestamp |-> t] ELSE c[k]]

\* an expiry test that already expires an entry whose age equals the TTL
ExpiredAtLimit(entry, t, limit) == t - entry.timestamp >= limit

\* the expiry test of get
Expired(entry, t, limit) == t - entry.timestamp > limit

\* get(key): the returned value
CacheGetResult(c, key, t, limit) ==
    IF key \notin DOMAIN c THEN Null
    ELSE IF Expired(c[key], t, limit) THEN Null
    ELSE c[key].value

\* a get that sweeps every expired entry out of the map
CacheGetSweep(c, key, t, limit) ==
    [k \in {j \in DOMAIN c : ~Expired(c[j], t, limit)} |-> c[k]]

\* get(key): the map afterwards (an expired entry is deleted)
CacheGetMap(c, key, t, limit) ==
    IF key \in DOMAIN c /\ Expired(c[key], t, limit)
    THEN [k \in (DOMAIN c) \ {key} |-> c[k]]
    ELSE c

\* a clear that keeps the entries
CacheClearNothing(c) == c

\* clear(): the map afterwards
CacheClearMap(c) == [k \in {} |-> Null]

NoCall == [op |-> None, key |-> None, value |-> None, time |-> 0, result |-> None]

CacheInit(ttlMinutes) ==
    /\ ttl = CacheTtl(ttlMinutes)
    /\ cache = [k \in {} |-> Null]
    /\ cacheOp = NoCall
    /\ lastSet = [k \in Keys |-> NoSet]
    /\ prevSet = [k \in Keys |-> NoSet]
    /\ cleared = {}

CacheSet(key, value) ==
    /\ cache' = CacheSetMap(cache, key, value, now)
    /\ cacheOp' = [op |-> "set", key |-> key, value |-> value, time |-> now,
                   result |-> None]
    /\ lastSet' = [lastSet EXCEPT ![key] = [value |-> value, time |-> now]]
    /\ prevSet' = [prevSet EXCEPT ![key] = lastSet[key]]
    /\ cleared' = cleared \ {key}
    /\ UNCHANGED ttl

CacheGet(key) ==
    /\ cache' = CacheGetMap(cache, key, now, ttl)
    /\ cacheOp' = [op |-> "get", key |-> key, value |-> None, time |-> now,
                   result |-> CacheGetResult(cache, key, now, ttl)]
    /\ UNCHANGED <<ttl, lastSet, prevSet, cleared>>

CacheClear ==
    /\ cache' = CacheClearMap(cache)
    /\ cacheOp' = [op |-> "clear", key |-> None, value |-> None, time |-> now,
                   result |-> None]
    /\ lastSet' = [k \in Keys |-> NoSet]
    /\ prevSet' = [k \in Keys |-> NoSet]
    /\ cleared' = cleared \cup {k \in Keys : lastSet[k].value # None}
    /\ UNCHANGED ttl

----------------------------------------------------------------------------
(* Retry executor *)

Min(a, b) == IF a <= b THEN a ELSE b

\* d * f for a factor f = num / den
Times(d, f) == (d * f.num) \div f.den

\* a loop test that admits one attempt less
LoopTestShort(a, o) == a < o.maxRetries - 1

\* a loop test that admits one attempt more
LoopTestInclusive(a, o) == a <= o.maxRetries

\* for (...; attempt < maxRetries; ...)
LoopTest(a, o) == a < o.maxRetries

\* a break that comes one attempt early
LastAttemptEarly(a, o) == a = o.maxRetries - 2

\* if (attempt === maxRetries - 1) break
LastAttempt(a, o) == a = o.maxRetries - 1

\* a backoff that grows from initialDelay by addition
NextDelayLinear(d, o) == Min(d + o.initialDelay, o.maxDelay)

\* delay = Math.min(delay * backoffFactor, maxDelay)
NextDelay(d, o) == Min(Times(d, o.backoffFactor), o.maxDelay)

NoOutcome == [kind |-> None, val |-> None]

RetryInit ==
    /\ rpc = "idle"
    /\ opts = [maxRetries |-> 3, initialDelay |-> 1000, maxDelay |-> 10000,
               backoffFactor |-> [num |-> 2, den |-> 1]]
    /\ attempt = 0
    /\ delay = 0
    /\ lastError = Null
    /\ failures = 0
    /\ calls = << >>
    /\ waits = << >>
    /\ outcome = NoOutcome

\* withRetry(fn, o) up to its first await: the loop is entered and fn is
\* invoked, or the loop is skipped and lastError is thrown
WithRetry(o, f) ==
    /\ rpc = "idle"
    /\ opts' = o
    /\ failures' = f
    /\ lastError' = Null
    /\ delay' = o.initialDelay
    /\ attempt' = 0
    /\ IF LoopTest(0, o)
       THEN rpc' = "calling" /\ outcome' = outcome
       ELSE rpc' = "done" /\ outcome' = [kind |-> "rejected", val |-> Null]
    /\ UNCHANGED <<calls, waits>>

\* fn() resolves: return await fn()
FnResolves(v) ==
    /\ rpc = "calling"
    /\ Len(calls) >= failures
    /\ calls' = Append(calls, [kind |-> "value", val |-> v])
    /\ rpc' = "done"
    /\ outcome' = [kind |-> "resolved", val |-> v]
    /\ UNCHANGED <<opts, attempt, delay, lastError, failures, waits>>

\* fn() rejects: the catch block up to its await, or up to the final throw
FnRejects(e) ==
    /\ rpc = "calling"
    /\ Len(calls) < failures
    /\ calls' = Append(calls, [kind |-> "error", val |-> e])
    /\ lastError' = e
    /\ IF LastAttempt(attempt, opts)
       THEN /\ rpc' = "done"
            /\ outcome' = [kind |-> "rejected", val |-> e]
            /\ waits' = waits
       ELSE /\ rpc' = "waiting"
            /\ outcome' = outcome
            /\ waits' = Append(waits, delay)
    /\ UNCHANGED <<opts, attempt, delay, failures>>

\* the timer fires: the next delay is computed, attempt++, and the loop
\* either invokes fn again or ends with throw lastError
TimerFires ==
    /\ rpc = "waiting"
    /\ delay' = NextDelay(delay, opts)
    /\ attempt' = attempt + 1
    /\ IF LoopTest(attempt + 1, opts)
       THEN rpc' = "calling" /\ outcome' = outcome
       ELSE rpc' = "done" /\ outcome' = [kind |-> "rejected", val |-> lastError]
    /\ UNCHANGED <<opts, lastError, failures, calls, waits>>

----------------------------------------------------------------------------
(* Rate limiter and the synchronous head of POST *)

\* requestLog.get(ip) || []
LogGet(log, ip) == IF ip \in DOMAIN log THEN log[ip] ELSE << >>

\* requestLog.set(ip, list)
LogSet(log, ip, list) ==
    [k \in (DOMAIN log) \cup {ip} |-> IF k = ip THEN list ELSE log[k]]

\* a window that still counts a timestamp exactly one window old
InWindowClosed(time, t) == time >= t - RATE_LIMIT_WINDOW

\* time > now - RATE_LIMIT_WINDOW
InWindow(time, t) == time > t - RATE_LIMIT_WINDOW

\* requests.filter((time) => time > now - RATE_LIMIT_WINDOW)
Recent(requests, t) == SelectSeq(requests, LAMBDA time : InWindow(time, t))

\* a check that also records the request it checks
IsRateLimitedRecording(log, ip, t) ==
    LogSet(log, ip, Append(Recent(LogGet(log, ip), t), t))

\* a check that prunes the list of every identity
IsRateLimitedPruneAll(log, ip, t) ==
    [k \in (DOMAIN log) \cup {ip} |-> Recent(LogGet(log, k), t)]

\* isRateLimited(ip): the log afterwards
IsRateLimitedLog(log, ip, t) == LogSet(log, ip, Recent(LogGet(log, ip), t))

\* a verdict that lets one request more through
IsRateLimitedResultOver(log, ip, t) ==
    Len(Recent(LogGet(log, ip), t)) > MAX_REQUESTS_PER_WINDOW

\* isRateLimited(ip): the returned verdict
IsRateLimitedResult(log, ip, t) ==
    Len(Recent(LogGet(log, ip), t)) >= MAX_REQUESTS_PER_WINDOW

\* requests = requestLog.get(ip) || []; requests.push(Date.now());
\* requestLog.set(ip, requests)
LogRequest(log, ip, t) == LogSet(log, ip, Append(LogGet(log, ip), t))

EmptyLog == [k \in {} |-> << >>]
NoCheck ==
    [op |-> None, ip |-> None, time |-> 0, before |-> << >>, result |-> FALSE,
     soloResult |-> FALSE]

LimiterInit ==
    /\ requestLog = EmptyLog
    /\ post = [pc |-> "idle", ip |-> None]
    /\ limOp = NoCheck
    /\ solo = [i \in Ips |-> EmptyLog]

\* POST: the ip is read and isRateLimited(ip) runs
PostCheck(ip) ==
    /\ post.pc = "idle"
    /\ requestLog' = IsRateLimitedLog(requestLog, ip, now)
    /\ solo' = [solo EXCEPT ![ip] = IsRateLimitedLog(solo[ip], ip, now)]
    /\ limOp' = [op |-> "isRateLimited", ip |-> ip, time |-> now,
                 before |-> LogGet(requestLog, ip),
                 result |-> IsRateLimitedResult(requestLog, ip, now),
                 soloResult |-> IsRateLimitedResult(solo[ip], ip, now)]
    /\ post' = [pc |-> IF IsRateLimitedResult(requestLog, ip, now)
                       THEN "limited" ELSE "log",
                ip |-> ip]

\* POST: the limited request is answered 429
PostReject ==
    /\ post.pc = "limited"
    /\ post' = [pc |-> "idle", ip |-> None]
    /\ UNCHANGED <<requestLog, limOp, solo>>

\* POST: the admitted request is logged; the handler then awaits req.json()
PostLog ==
    /\ post.pc = "log"
    /\ requestLog' = LogRequest(requestLog, post.ip, now)
    /\ solo' = [solo EXCEPT ![post.ip] = LogRequest(solo[post.ip], post.ip, now)]
    /\ post' = [pc |-> "idle", ip |-> None]
    /\ UNCHANGED limOp

----------------------------------------------------------------------------
(* The POST handler, several requests in flight *)

\* performFactCheck: the options it passes to withRetry
FactCheckOptions ==
    [maxRetries |-> 3, initialDelay |-> 1000, maxDelay |-> 5000,
     backoffFactor |-> [num |-> 2, den |-> 1]]

\* the requests tried: identities, texts, results and errors of the action
PostIps == {"unknown"}
PostTexts == Keys
PostResults == {"v1"}
PostErrors == {"e1"}

\* positions inside the synchronous stretch of POST that has no await, from
\* isRateLimited(ip) to requestLog.set(ip, requests)
SyncPcs == {"limited", "read", "push"}

\* a scheduler that may switch handlers between any two statements
Preemptive(h) == TRUE

\* the event loop runs a handler only while no other handler is inside a
\* synchronous stretch
RunToCompletion(h) == \A g \in Handlers \ {h} : reqs[g].pc \notin SyncPcs

\* a handler that goes on to log the request whatever the verdict
AfterCheckIgnoring(limited) == "read"

\* if (isRateLimited(ip)) return 429
AfterCheck(limited) == IF limited THEN "limited" ELSE "read"

\* a handler that never uses the cached result
CacheHitNever(cached) == FALSE

\* if (cachedResult)
CacheHit(cached) == cached # Null

\* a handler that forgets to push the timestamp
PushNothing(log, ip, requests, t) == LogSet(log, ip, requests)

\* requests.push(Date.now()); requestLog.set(ip, requests)
PushAndSet(log, ip, requests, t) == LogSet(log, ip, Append(requests, t))

\* a handler that caches what it answers, errors included
CachedOnAnswerAlways(c, r, status, body, t) ==
    IF r.text # None THEN CacheSetMap(c, r.text, body, t) ELSE c

\* the cache after a response that is not a fresh result: untouched
CachedOnAnswer(c, r, status, body, t) == c

\* no request yet
Fresh ==
    [pc |-> "idle", ip |-> None, requests |-> << >>, text |-> None,
     attempt |-> 0, delay |-> 0, lastError |-> Null, body |-> None,
     status |-> 0, logged |-> 0, invoked |-> FALSE]

\* the request has been answered: its locals are gone; what remains is the
\* response, the text of a 200, the number of timestamps recorded for the
\* request and whether the action was invoked for it
Answered(r, status, body) ==
    [Fresh EXCEPT !.status = status, !.body = body, !.logged = r.logged,
                  !.invoked = r.invoked,
                  !.text = IF status = 200 THEN r.text ELSE None]

PostInit ==
    /\ reqs = [h \in Handlers |-> Fresh]
    /\ admitted = [i \in Ips |-> << >>]
    /\ lockedSince = [i \in Ips |-> -1]

\* time passes: timestamps that left the window leave the history
PostTick ==
    /\ Tick
    /\ admitted' = [i \in Ips |->
          SelectSeq(admitted[i], LAMBDA x : x > now' - RATE_LIMIT_WINDOW)]
    /\ UNCHANGED <<reqs, lockedSince>>

\* a request arrives: const ip = ...; isRateLimited(ip)
PostIsRateLimited(h, ip) ==
    /\ reqs[h].pc = "idle"
    /\ RunToCompletion(h)
    /\ requestLog' = IsRateLimitedLog(requestLog, ip, now)
    /\ reqs' = [reqs EXCEPT ![h] =
          [Fresh EXCEPT !.pc = AfterCheck(IsRateLimitedResult(requestLog, ip, now)),
                        !.ip = ip]]
    /\ lockedSince' =
          IF IsRateLimitedResult(requestLog, ip, now) /\ lockedSince[ip] = -1
          THEN [lockedSince EXCEPT ![ip] = now]
          ELSE lockedSince
    /\ UNCHANGED admitted

\* return NextResponse.json({error: "Too many requests..."}, {status: 429})
PostTooMany(h) ==
    /\ reqs[h].pc = "limited"
    /\ reqs' = [reqs EXCEPT ![h] = Answered(@, 429, "error")]
    /\ cache' = CachedOnAnswer(cache, reqs[h], 429, "error", now)
    /\ UNCHANGED <<requestLog, admitted, lockedSince>>

\* const requests = requestLog.get(ip) || []
PostReadLog(h) ==
    /\ reqs[h].pc = "read"
    /\ reqs' = [reqs EXCEPT ![h].pc = "push",
                            ![h].requests = LogGet(requestLog, reqs[h].ip)]
    /\ UNCHANGED <<requestLog, admitted, lockedSince>>

\* requests.push(Date.now()); requestLog.set(ip, requests); the handler then
\* awaits req.json()
PostPushLog(h) ==
    /\ reqs[h].pc = "push"
    /\ requestLog' = PushAndSet(requestLog, reqs[h].ip, reqs[h].requests, now)
    /\ reqs' = [reqs EXCEPT
          ![h].pc = "json", ![h].requests = << >>, ![h].ip = None,
          ![h].logged = @ + Len(LogGet(requestLog', reqs[h].ip))
                          - Len(reqs[h].requests)]
    /\ admitted' = [admitted EXCEPT ![reqs[h].ip] = Append(@, now)]
    /\ lockedSince' = [lockedSince EXCEPT ![reqs[h].ip] = -1]

\* req.json() rejects: the catch block answers 500
PostBodyRejects(h) ==
    /\ reqs[h].pc = "json"
    /\ RunToCompletion(h)
    /\ reqs' = [reqs EXCEPT ![h] = Answered(@, 500, "error")]
    /\ cache' = CachedOnAnswer(cache, reqs[h], 500, "error", now)
    /\ UNCHANGED <<requestLog, admitted, lockedSince>>

\* req.json() resolves without a usable text: 400
PostBodyInvalid(h) ==
    /\ reqs[h].pc = "json"
    /\ RunToCompletion(h)
    /\ reqs' = [reqs EXCEPT ![h] = Answered(@, 400, "error")]
    /\ cache' = CachedOnAnswer(cache, reqs[h], 400, "error", now)
    /\ UNCHANGED <<requestLog, admitted, lockedSince>>

\* req.json() resolves with a text: factCheckCache.get(text); a hit is
\* answered, a miss calls performFactCheck, whose withRetry invokes the action
PostBodyText(h, text) ==
    /\ reqs[h].pc = "json"
    /\ RunToCompletion(h)
    /\ cache' = CacheGetMap(cache, text, now, ttl)
    /\ LET cached == CacheGetResult(cache, text, now, ttl)
           r == [reqs[h] EXCEPT !.text = text]
       IN  reqs' = [reqs EXCEPT ![h] =
             IF CacheHit(cached)
             THEN Answered(r, 200, cached)
             ELSE IF LoopTest(0, FactCheckOptions)
             THEN [r EXCEPT !.pc = "calling", !.attempt = 0,
                            !.delay = FactCheckOptions.initialDelay,
                            !.lastError = Null, !.invoked = TRUE]
             ELSE Answered(r, 500, Null)]
    /\ UNCHANGED <<requestLog, admitted, lockedSince>>

\* the action resolves with parsed results: withRetry and performFactCheck
\* return them to POST
PostFnResolves(h, v) ==
    /\ reqs[h].pc = "calling"
    /\ RunToCompletion(h)
    /\ reqs' = [reqs EXCEPT ![h].pc = "store", ![h].body = v, ![h].attempt = 0,
                            ![h].delay = 0, ![h].lastError = Null]
    /\ UNCHANGED <<cache, requestLog, admitted, lockedSince>>

\* factCheckCache.set(text, result); return NextResponse.json(result)
PostStore(h) ==
    /\ reqs[h].pc = "store"
    /\ RunToCompletion(h)
    /\ cache' = CacheSetMap(cache, reqs[h].text, reqs[h].body, now)
    /\ reqs' = [reqs EXCEPT ![h] = Answered(@, 200, reqs[h].body)]
    /\ UNCHANGED <<requestLog, admitted, lockedSince>>

\* the action rejects, or its response does not parse: withRetry waits, or
\* throws after the last attempt and POST answers 500
PostFnRejects(h, err) ==
    /\ reqs[h].pc = "calling"
    /\ RunToCompletion(h)
    /\ IF LastAttempt(reqs[h].attempt, FactCheckOptions)
       THEN /\ reqs' = [reqs EXCEPT ![h] = Answered(@, 500, "error")]
            /\ cache' = CachedOnAnswer(cache, reqs[h], 500, "error", now)
       ELSE /\ reqs' = [reqs EXCEPT ![h].pc = "waiting", ![h].lastError = err]
            /\ cache' = cache
    /\ UNCHANGED <<requestLog, admitted, lockedSince>>

\* withRetry's timer fires: next delay, next attempt
PostTimerFires(h) ==
    /\ reqs[h].pc = "waiting"
    /\ RunToCompletion(h)
    /\ IF LoopTest(reqs[h].attempt + 1, FactCheckOptions)
       THEN /\ reqs' = [reqs EXCEPT
                  ![h].pc = "calling", ![h].attempt = @ + 1,
                  ![h].delay = NextDelay(reqs[h].delay, FactCheckOptions)]
            /\ cache' = cache
       ELSE /\ reqs' = [reqs EXCEPT ![h] = Answered(@, 500, "error")]
            /\ cache' = CachedOnAnswer(cache, reqs[h], 500, "error", now)
    /\ UNCHANGED <<requestLog, admitted, lockedSince>>

----------------------------------------------------------------------------
(* Specification of the cache on its own *)

InitCache ==
    /\ now = 0
    /\ \E m \in TtlMinutes : CacheInit(m)
    /\ RetryInit
    /\ LimiterInit
    /\ PostInit

CacheTick == Tick /\ UNCHANGED <<cacheVars, retryVars, limiterVars, postVars>>

NextCache ==
    \/ \E k \in Keys, v \in Values : CacheSet(k, v) /\ UNCHANGED <<now, retryVars, limiterVars, postVars>>
    \/ \E k \in Keys : CacheGet(k) /\ UNCHANGED <<now, retryVars, limiterVars, postVars>>
    \/ CacheClear /\ UNCHANGED <<now, retryVars, limiterVars, postVars>>
    \/ CacheTick

SpecCache == InitCache /\ [][NextCache]_vars

----------------------------------------------------------------------------
(* Specification of the retry executor on its own *)

\* const factCheckCache = new Cache(60)
FACT_CHECK_TTL_MINUTES == 60

InitRetry ==
    /\ now = 0
    /\ CacheInit(FACT_CHECK_TTL_MINUTES)
    /\ RetryInit
    /\ LimiterInit
    /\ PostInit

NextRetry ==
    \/ \E o \in RetryOptions, f \in 0 .. MaxAttempts :
            WithRetry(o, f) /\ UNCHANGED <<now, cacheVars, limiterVars, postVars>>
    \/ \E v \in Values : FnResolves(v) /\ UNCHANGED <<now, cacheVars, limiterVars, postVars>>
    \/ \E e \in Errors : FnRejects(e) /\ UNCHANGED <<now, cacheVars, limiterVars, postVars>>
    \/ TimerFires /\ UNCHANGED <<now, cacheVars, limiterVars, postVars>>

SpecRetry == InitRetry /\ [][NextRetry]_vars

\* every timer that setTimeout schedules fires; whether an invocation of the
\* action settles is left to the action
SpecRetryFair ==
    SpecRetry /\ WF_vars(TimerFires /\ UNCHANGED <<now, cacheVars, limiterVars, postVars>>)

----------------------------------------------------------------------------
(* Specification of the rate limiter and the head of POST *)

InitLimiter ==
    /\ now = 0
    /\ CacheInit(FACT_CHECK_TTL_MINUTES)
    /\ RetryInit
    /\ LimiterInit
    /\ PostInit

LimiterTick == Tick /\ UNCHANGED <<cacheVars, retryVars, limiterVars, postVars>>

NextLimiter ==
    \/ \E ip \in Ips : PostCheck(ip) /\ UNCHANGED <<now, cacheVars, retryVars, postVars>>
    \/ PostReject /\ UNCHANGED <<now, cacheVars, retryVars, postVars>>
    \/ PostLog /\ UNCHANGED <<now, cacheVars, retryVars, postVars>>
    \/ LimiterTick

SpecLimiter == InitLimiter /\ [][NextLimiter]_vars

----------------------------------------------------------------------------
(* Specification of POST with several requests in flight *)

InitPost ==
    /\ now = 0
    /\ CacheInit(FACT_CHECK_TTL_MINUTES)
    /\ RetryInit
    /\ LimiterInit
    /\ PostInit

\* what no step of POST touches
PostFrame == UNCHANGED <<now, ttl, cacheOp, lastSet, prevSet, cleared, retryVars,
                         post, limOp, solo>>

NextPost ==
    \/ \E h \in Handlers, ip \in PostIps :
            PostIsRateLimited(h, ip) /\ PostFrame /\ UNCHANGED cache
    \/ \E h \in Handlers : PostTooMany(h) /\ PostFrame
    \/ \E h \in Handlers : PostReadLog(h) /\ PostFrame /\ UNCHANGED cache
    \/ \E h \in Handlers : PostPushLog(h) /\ PostFrame /\ UNCHANGED cache
    \/ \E h \in Handlers : PostBodyRejects(h) /\ PostFrame
    \/ \E h \in Handlers : PostBodyInvalid(h) /\ PostFrame
    \/ \E h \in Handlers, text \in PostTexts : PostBodyText(h, text) /\ PostFrame
    \/ \E h \in Handlers, v \in PostResults : PostFnResolves(h, v) /\ PostFrame
    \/ \E h \in Handlers : PostStore(h) /\ PostFrame
    \/ \E h \in Handlers, err \in PostErrors : PostFnRejects(h, err) /\ PostFrame
    \/ \E h \in Handlers : PostTimerFires(h) /\ PostFrame
    \/ PostTick /\ UNCHANGED <<cacheVars, retryVars, limiterVars>>

SpecPost == InitPost /\ [][NextPost]_vars

----------------------------------------------------------------------------
(* Claims about the cache *)

\* C1 (Cache TTL invariant): when the last call is get(k) at time t' and the
\* last set(k, v) since the last clear() happened at time t, the get returned
\* v if t' <= t + ttl and null if t' > t + ttl.
C1_TtlInvariant ==
    (cacheOp.op = "get" /\ lastSet[cacheOp.key].value # None) =>
        LET s == lastSet[cacheOp.key] IN
        cacheOp.result = IF cacheOp.time <= s.time + ttl THEN s.value ELSE Null

\* a get of a key set under a one-minute TTL, read after the TTL, returned null
C1_Witness ==
    /\ cacheOp.op = "get"
    /\ lastSet[cacheOp.key].value # None
    /\ ttl = CacheTtl(1)
    /\ cacheOp.time > lastSet[cacheOp.key].time + ttl
    /\ cacheOp.result = Null

\* C10 (Cache overwrite): when set(k, v1) at t1 was followed by set(k, v2) at
\* t2 <= t1 + ttl, a later get(k) at t' <= t2 + ttl returns v2, also when
\* t' > t1 + ttl, and no later get(k) returns v1 (for v1 # v2).
C10_Overwrite ==
    (/\ cacheOp.op = "get"
     /\ prevSet[cacheOp.key].value # None
     /\ lastSet[cacheOp.key].time <= prevSet[cacheOp.key].time + ttl) =>
        LET s1 == prevSet[cacheOp.key]
            s2 == lastSet[cacheOp.key]
        IN  /\ cacheOp.time <= s2.time + ttl => cacheOp.result = s2.value
            /\ s1.value # s2.value => cacheOp.result # s1.value

\* v2 is returned after v1 would have expired but before v2 does
C10_Witness ==
    /\ cacheOp.op = "get"
    /\ prevSet[cacheOp.key].value # None
    /\ prevSet[cacheOp.key].value # lastSet[cacheOp.key].value
    /\ lastSet[cacheOp.key].time <= prevSet[cacheOp.key].time + ttl
    /\ cacheOp.time > prevSet[cacheOp.key].time + ttl
    /\ cacheOp.time <= lastSet[cacheOp.key].time + ttl
    /\ cacheOp.result = lastSet[cacheOp.key].value

\* C11 (Cache clear): a get(k) of a key k that was set before the last
\* clear() and has not been set since returns null, at any later time.
C11_Clear ==
    (cacheOp.op = "get" /\ cacheOp.key \in cleared) => cacheOp.result = Null

\* under a one-minute TTL, a key is read at the very time it was cleared
C11_Witness ==
    /\ cacheOp.op = "get"
    /\ cacheOp.key \in cleared
    /\ ttl = CacheTtl(1)
    /\ cacheOp.time = 0
    /\ cacheOp.result = Null

\* the step is a call of get
IsGetStep == cacheOp'.op = "get" /\ now' = now /\ lastSet' = lastSet

\* C16 (Lazy eviction frame): get(k) on an entry older than the TTL removes
\* exactly the entry of k and returns null; get(k) on a missing key or on an
\* entry within the TTL leaves the map unchanged; the entries of the other
\* keys, expired or not, are never changed by it.
C16_EvictionFrame ==
    [][IsGetStep =>
        LET k == cacheOp'.key IN
        /\ IF k \in DOMAIN cache /\ now - cache[k].timestamp > ttl
           THEN /\ DOMAIN cache' = (DOMAIN cache) \ {k}
                /\ cacheOp'.result = Null
           ELSE cache' = cache
        /\ \A j \in Keys \ {k} :
              /\ j \in DOMAIN cache <=> j \in DOMAIN cache'
              /\ j \in DOMAIN cache => cache'[j] = cache[j]
    ]_vars

\* a get evicted its own expired entry and left the expired entry of another
\* key in the map
C16_Witness ==
    /\ cacheOp.op = "get"
    /\ cacheOp.time = now
    /\ lastSet[cacheOp.key].value # None
    /\ cacheOp.time - lastSet[cacheOp.key].time > ttl
    /\ cacheOp.key \notin DOMAIN cache
    /\ cacheOp.result = Null
    /\ \E j \in DOMAIN cache : now - cache[j].timestamp > ttl

----------------------------------------------------------------------------
(* Claims about the retry executor *)

AlwaysFails == failures >= opts.maxRetries
Max(a, b) == IF a >= b THEN a ELSE b
RECURSIVE Pow(_, _)
Pow(b, n) == IF n = 0 THEN 1 ELSE b * Pow(b, n - 1)

\* min(initialDelay * backoffFactor^i, maxDelay)
ClosedDelay(i, o) ==
    Min((o.initialDelay * Pow(o.backoffFactor.num, i)) \div Pow(o.backoffFactor.den, i),
        o.maxDelay)

\* C2 (Retry exhaustion count): when withRetry has settled on an action that
\* fails on every invocation, the action was invoked exactly maxRetries
\* times, every invocation failed, and withRetry failed.
C2_ExhaustionCount ==
    (rpc = "done" /\ AlwaysFails) =>
        /\ Len(calls) = opts.maxRetries
        /\ \A i \in 1 .. Len(calls) : calls[i].kind = "error"
        /\ outcome.kind = "rejected"

\* three attempts, all failed
C2_Witness ==
    /\ rpc = "done"
    /\ AlwaysFails
    /\ opts.maxRetries = 3
    /\ Len(calls) = 3
    /\ outcome.kind = "rejected"

\* C3 (Retry outcome provenance): when withRetry has settled, the action was
\* invoked, and withRetry resolved with the value of its last invocation or
\* rejected with the error of its last invocation.
C3_Provenance ==
    rpc = "done" =>
        /\ Len(calls) > 0
        /\ LET c == calls[Len(calls)] IN
           \/ outcome.kind = "resolved" /\ c.kind = "value" /\ outcome.val = c.val
           \/ outcome.kind = "rejected" /\ c.kind = "error" /\ outcome.val = c.val

\* C4 as stated (Backoff delay sequence): on exhaustion there were exactly
\* maxRetries - 1 waits, the first of initialDelay and the i-th (i >= 1, from
\* 0) of min(initialDelay * backoffFactor^i, maxDelay).
C4_ClosedFormAlways ==
    (rpc = "done" /\ AlwaysFails) =>
        /\ Len(waits) = opts.maxRetries - 1
        /\ \A i \in 1 .. Len(waits) :
              waits[i] = IF i = 1 THEN opts.initialDelay ELSE ClosedDelay(i - 1, opts)

\* C4 as amended (Backoff delay sequence): on exhaustion there were exactly
\* max(maxRetries - 1, 0) waits, none after the final attempt; the first
\* lasts initialDelay, each later one min(previous wait * backoffFactor,
\* maxDelay), which for backoffFactor >= 1 is
\* min(initialDelay * backoffFactor^i, maxDelay).
C4_BackoffSequence ==
    (rpc = "done" /\ AlwaysFails) =>
        /\ Len(waits) = Max(opts.maxRetries - 1, 0)
        /\ Len(waits) >= 1 => waits[1] = opts.initialDelay
        /\ \A i \in 2 .. Len(waits) :
              /\ waits[i] = Min((waits[i - 1] * opts.backoffFactor.num)
                                    \div opts.backoffFactor.den,
                                opts.maxDelay)
              /\ opts.backoffFactor.num >= opts.backoffFactor.den =>
                    waits[i] = ClosedDelay(i - 1, opts)

\* four failed attempts, three waits: the delay grows, then is capped
C4_Witness ==
    /\ rpc = "done"
    /\ AlwaysFails
    /\ Len(waits) = 3
    /\ waits[1] = opts.initialDelay
    /\ waits[1] < waits[2]
    /\ waits[2] = opts.maxDelay
    /\ waits[3] = opts.maxDelay

\* C5 (Delay cap): no wait between attempts is longer than maxDelay.
C5_DelayCap == \A i \in 1 .. Len(waits) : waits[i] <= opts.maxDelay

\* C6 (Retry late success): when the action fails on attempts 1 .. k-1 and
\* succeeds on attempt k <= maxRetries, withRetry settles resolved with that
\* value after exactly k invocations and k-1 waits, and once it has settled
\* there is no further invocation or wait.
C6_LateSuccess ==
    /\ [](  (rpc = "done" /\ failures < opts.maxRetries) =>
              /\ Len(calls) = failures + 1
              /\ Len(waits) = failures
              /\ \A i \in 1 .. failures : calls[i].kind = "error"
              /\ calls[failures + 1].kind = "value"
              /\ outcome = [kind |-> "resolved", val |-> calls[failures + 1].val])
    /\ [][rpc = "done" => (calls' = calls /\ waits' = waits)]_vars

\* success on the third attempt, after two failures and two waits
C6_Witness ==
    /\ rpc = "done"
    /\ failures = 2
    /\ opts.maxRetries >= 3
    /\ Len(calls) = 3
    /\ Len(waits) = 2
    /\ outcome.kind = "resolved"

\* the invocations of the action so far, the pending one included
Invocations == Len(calls) + (IF rpc = "calling" THEN 1 ELSE 0)

\* C19 (Retry termination): the action is never invoked more than maxRetries
\* times, and, timers firing, if every invocation of the action settles then
\* a withRetry that was called eventually settles; so a withRetry that never
\* settles has an invocation that never settles.
C19_Termination ==
    /\ [](rpc # "idle" => Invocations <= opts.maxRetries)
    /\ ((rpc = "calling") ~> (rpc # "calling")) => ((rpc # "idle") ~> (rpc = "done"))

\* withRetry settled after using all of three attempts and both waits
C19_Witness ==
    /\ rpc = "done"
    /\ opts.maxRetries = 3
    /\ Invocations = 3
    /\ Len(waits) = 2

----------------------------------------------------------------------------
(* Claims about the rate limiter *)

\* the timestamps of `list` strictly newer than t - 60000, in order
NewerThanWindow(list, t) == SelectSeq(list, LAMBDA x : x > t - 60000)

\* C7 (Rate limiter verdict): isRateLimited(X) at time t returned true
\* exactly when at least 10 of X's recorded timestamps were > t - 60000; an
\* identity without recorded timestamps was not limited.
C7_Verdict ==
    limOp.op = "isRateLimited" =>
        /\ limOp.result = (Len(NewerThanWindow(limOp.before, limOp.time)) >= 10)
        /\ limOp.before = << >> => limOp.result = FALSE

\* ten recorded timestamps, the earliest exactly 60000 ms old: it is not
\* counted, nine remain and the verdict is false
C7_Witness ==
    /\ limOp.op = "isRateLimited"
    /\ Len(limOp.before) = 10
    /\ limOp.before[1] = limOp.time - 60000
    /\ Len(NewerThanWindow(limOp.before, limOp.time)) = 9
    /\ limOp.result = FALSE

\* C8 (Rate limiter independence): for every identity Y, Y's recorded list
\* and every verdict of isRateLimited(Y) are those of the run in which only
\* the calls for Y happen.
C8_Independence ==
    /\ \A y \in Ips : LogGet(requestLog, y) = LogGet(solo[y], y)
    /\ limOp.op = "isRateLimited" => limOp.result = limOp.soloResult

\* Y holds timestamps that a check of X, made after they left the window,
\* did not touch
C8_Witness ==
    /\ limOp.op = "isRateLimited"
    /\ post.pc # "idle"
    /\ \E y \in Ips \ {limOp.ip} :
          /\ LogGet(requestLog, y) # << >>
          /\ NewerThanWindow(LogGet(requestLog, y), limOp.time) = << >>
          /\ LogGet(requestLog, y) = LogGet(solo[y], y)

\* C9 (Limiter check prunes but never records): right after isRateLimited(X)
\* at time t, with either verdict, X's stored list is the list found,
\* restricted to the timestamps > t - 60000, in the same order, and not
\* longer than the list found.
C9_PruneOnly ==
    (limOp.op = "isRateLimited" /\ post.pc \in {"limited", "log"}) =>
        /\ limOp.ip \in DOMAIN requestLog
        /\ requestLog[limOp.ip] = NewerThanWindow(limOp.before, limOp.time)
        /\ Len(requestLog[limOp.ip]) <= Len(limOp.before)

\* a check that dropped some timestamps, kept others and appended nothing
C9_Witness ==
    /\ limOp.op = "isRateLimited"
    /\ post.pc = "log"
    /\ Len(requestLog[limOp.ip]) >= 2
    /\ Len(requestLog[limOp.ip]) < Len(limOp.before)
    /\ requestLog[limOp.ip][Len(requestLog[limOp.ip])] < limOp.time

----------------------------------------------------------------------------
(* Claims about POST *)

\* the handler took a step
Stepped(h) == reqs'[h] # reqs[h]

\* the lookup of key k at the current time finds an entry within the TTL
Cached(k) == k \in DOMAIN cache /\ now - cache[k].timestamp <= ttl

\* C12 (Sliding-window admission bound): for every identity, at every time,
\* at most 10 of the timestamps recorded by its requests that passed the
\* check lie in the window (now - 60000, now].
C12_AdmissionBound ==
    \A ip \in Ips :
        Cardinality({i \in DOMAIN admitted[ip] :
                        admitted[ip][i] > now - 60000 /\ admitted[ip][i] <= now}) <= 10

\* ten requests admitted at different times of one window, the next limited
C12_Witness ==
    \E ip \in Ips, h \in Handlers :
        /\ reqs[h].pc = "limited"
        /\ reqs[h].ip = ip
        /\ Len(admitted[ip]) = 10
        /\ admitted[ip][1] < admitted[ip][10]
        /\ admitted[ip][1] > now - 60000

\* C13 (No lost update to the request log): while a handler is between its
\* limiter check and its recording no other handler takes a step; the
\* recording appends the current time to the list as it then is; and no step
\* removes a timestamp that is still inside the window.
C13_NoLostUpdate ==
    /\ [][\A h \in Handlers :
            reqs[h].pc \in SyncPcs => \A g \in Handlers \ {h} : ~Stepped(g)]_vars
    /\ [][\A h \in Handlers :
            (reqs[h].pc = "push" /\ reqs'[h].pc = "json") =>
                LogGet(requestLog', reqs[h].ip)
                    = Append(LogGet(requestLog, reqs[h].ip), now)]_vars
    /\ [][\A ip \in Ips :
            LET old == LogGet(requestLog, ip)
                new == LogGet(requestLog', ip)
                kept == SelectSeq(old, LAMBDA x : x > now - 60000)
                keptNew == SelectSeq(new, LAMBDA x : x > now - 60000)
            IN  /\ Len(keptNew) >= Len(kept)
                /\ SubSeq(keptNew, 1, Len(kept)) = kept]_vars

\* a handler is between its check and its recording while the other handler,
\* with its timestamp recorded, is suspended at an await
C13_Witness ==
    \E h \in Handlers, g \in Handlers :
        /\ reqs[h].pc = "push"
        /\ reqs[g].pc \in {"json", "calling", "waiting", "store"}
        /\ reqs[h].requests # << >>
        /\ reqs[h].requests = LogGet(requestLog, reqs[h].ip)

\* C14 (Request pipeline order): a request starts with the limiter check; a
\* limited request is answered 429 and neither reads or writes the cache,
\* nor invokes the action, nor records a timestamp; the action is first
\* invoked in the step that read the cache and missed; a request whose cache
\* read finds an entry within the TTL is answered 200 with that entry and
\* never invokes the action.
C14_PipelineOrder ==
    /\ [](\A h \in Handlers :
            reqs[h].status = 429 => (~reqs[h].invoked /\ reqs[h].logged = 0))
    /\ [][\A h \in Handlers :
            /\ (reqs[h].pc = "idle" /\ Stepped(h)) =>
                  /\ reqs'[h].pc \in {"limited", "read"}
                  /\ cache' = cache
            /\ (reqs[h].pc = "limited" /\ Stepped(h)) =>
                  /\ reqs'[h].pc = "idle" /\ reqs'[h].status = 429
                  /\ cache' = cache /\ requestLog' = requestLog
            /\ (reqs'[h].status = 429 /\ Stepped(h)) => reqs[h].pc = "limited"
            /\ (~reqs[h].invoked /\ reqs'[h].invoked) =>
                  /\ reqs[h].pc = "json" /\ reqs'[h].pc = "calling"
                  /\ ~Cached(reqs'[h].text)
            /\ (reqs[h].pc = "json" /\ reqs'[h].status = 200) =>
                  /\ Cached(reqs'[h].text)
                  /\ reqs'[h].body = cache[reqs'[h].text].value
                  /\ ~reqs'[h].invoked
            /\ (reqs[h].pc = "json" /\ Stepped(h) /\ reqs'[h].text # None
                    /\ Cached(reqs'[h].text)) =>
                  /\ reqs'[h].pc = "idle" /\ reqs'[h].status = 200
       ]_vars

\* one request was answered from the cache without an invocation while
\* another was answered 429
C14_Witness ==
    \E h \in Handlers, g \in Handlers :
        /\ reqs[h].pc = "idle" /\ reqs[h].status = 200
        /\ ~reqs[h].invoked
        /\ reqs[h].logged = 1
        /\ reqs[h].body = cache[reqs[h].text].value
        /\ reqs[g].pc = "idle" /\ reqs[g].status = 429

\* some key has a new or changed entry
CacheWritten == \E k \in DOMAIN cache' : k \notin DOMAIN cache \/ cache'[k] # cache[k]

\* C15 (Cache is written only on success): the cache gets a new or changed
\* entry only in the step of a request that holds the result returned by the
\* retry executor, under the request's own text, with that result and the
\* current time; a step that answers 500 leaves the cache unchanged.
C15_WriteOnSuccess ==
    /\ [](\A h \in Handlers :
            reqs[h].pc = "store" => (reqs[h].invoked /\ reqs[h].body \in PostResults))
    /\ [][CacheWritten =>
            \E h \in Handlers :
                /\ reqs[h].pc = "store"
                /\ reqs'[h].pc = "idle" /\ reqs'[h].status = 200
                /\ reqs'[h].body = reqs[h].body
                /\ DOMAIN cache' = (DOMAIN cache) \cup {reqs[h].text}
                /\ cache'[reqs[h].text] = [value |-> reqs[h].body, timestamp |-> now]
                /\ \A k \in (DOMAIN cache) \ {reqs[h].text} : cache'[k] = cache[k]
       ]_vars
    /\ [][\A h \in Handlers :
            (reqs'[h].status = 500 /\ Stepped(h)) => cache' = cache]_vars

\* one request stored its result; another, whose attempts all failed, was
\* answered 500 and its text is not in the cache
C15_Witness ==
    \E h \in Handlers, g \in Handlers :
        /\ reqs[h].pc = "idle" /\ reqs[h].status = 200 /\ reqs[h].invoked
        /\ cache[reqs[h].text] = [value |-> reqs[h].body, timestamp |-> now]
        /\ reqs[g].pc = "idle" /\ reqs[g].status = 500 /\ reqs[g].invoked
        /\ DOMAIN cache = {reqs[h].text}

\* C17 (Every request that passes the check is recorded): a request that
\* passed the check does nothing but record one timestamp before it awaits
\* its body, so every request that is past that point or was answered 200,
\* 400 or 500 has exactly one timestamp recorded, and a limited one none.
C17_AdmittedIsRecorded ==
    /\ [](\A h \in Handlers :
            /\ (reqs[h].pc \in {"json", "calling", "waiting", "store"}
                    \/ reqs[h].status \in {200, 400, 500}) => reqs[h].logged = 1
            /\ reqs[h].pc \in SyncPcs => reqs[h].logged = 0)
    /\ [][\A h \in Handlers :
            /\ (reqs[h].pc = "read" /\ Stepped(h)) => reqs'[h].pc = "push"
            /\ (reqs[h].pc = "push" /\ Stepped(h)) =>
                  /\ reqs'[h].pc = "json"
                  /\ LET new == LogGet(requestLog', reqs[h].ip) IN
                     /\ Len(new) = Len(LogGet(requestLog, reqs[h].ip)) + 1
                     /\ new[Len(new)] = now
       ]_vars

\* an invalid request and a failed request each left a timestamp
C17_Witness ==
    \E h \in Handlers, g \in Handlers :
        /\ reqs[h].status = 400 /\ reqs[h].logged = 1
        /\ reqs[g].status = 500 /\ reqs[g].invoked /\ reqs[g].logged = 1
        /\ Len(LogGet(requestLog, "unknown")) >= 2

\* C18 (Rejected requests do not prolong a lockout): a request of X checked
\* at a time >= t + 60000, where t is the time X was first found limited and
\* no request of X has been recorded since, passes the check.
C18_NoProlongedLockout ==
    [][\A h \in Handlers :
        (/\ reqs[h].pc = "idle" /\ Stepped(h)
         /\ lockedSince[reqs'[h].ip] # -1
         /\ now >= lockedSince[reqs'[h].ip] + 60000) => reqs'[h].pc = "read"
    ]_vars

\* X passed the check one window after it was found limited; a request of X
\* rejected in between is still on record
C18_Witness ==
    \E h \in Handlers, g \in Handlers :
        /\ reqs[h].pc = "read"
        /\ lockedSince[reqs[h].ip] # -1
        /\ now >= lockedSince[reqs[h].ip] + 60000
        /\ reqs[g].pc = "idle" /\ reqs[g].status = 429

====
